---- MODULE Spec2Model ----
(***************************************************************************)
(* A model of install.py, the WASI SDK installer: configuration from the   *)
(* command line and the environment, version and tag normalisation, the    *)
(* artifact URL, download and extraction with the first path component     *)
(* stripped, and the appended output and environment files.                *)
(*                                                                         *)
(* Python strings are sequences of one-character strings, so that rstrip,  *)
(* replace, split, join and lower are modelled by what they do.            *)
(***************************************************************************)
EXTENDS Naturals, Sequences, FiniteSets

\* ---------------------------------------------------------------- bounds
\* The longest explicit version string drawn as an input.
MaxVerLen == 4
\* The most members an archive holds.
MaxMembers == 2
\* The most lines a file holds before write_variables runs.
MaxPrior == 1

\* --------------------------------------------------------------- strings
\* Python's None, an unset environment variable and a file that does not
\* exist: values of the same shape as the strings (or lists of lines) they
\* stand beside, and equal to none of them.
None == <<"None">>
Unset == <<"Unset">>
NoFile == <<"NoFile">>

Latest == <<"l","a","t","e","s","t">>
TagPrefix == <<"w","a","s","i","-","s","d","k","-">>
Dot == <<".">>
DotZero == <<".","0">>
Slash == <<"/">>
Base == <<"h","t","t","p","s",":","/","/","g","i","t","h","u","b",".","c","o","m","/","W","e","b","A","s","s","e","m","b","l","y","/","w","a","s","i","-","s","d","k","/","r","e","l","e","a","s","e","s","/","d","o","w","n","l","o","a","d">>
Darwin == <<"D","a","r","w","i","n">>
MacOS == <<"m","a","c","o","s">>
TarGz == <<".","t","a","r",".","g","z">>
Dash == <<"-">>
TrueStr == <<"t","r","u","e">>
FalseStr == <<"f","a","l","s","e">>
BinClang == <<"/","b","i","n","/","c","l","a","n","g">>
ShareSysroot == <<"/","s","h","a","r","e","/","w","a","s","i","-","s","y","s","r","o","o","t">>
NL == <<"\n">>

UpperCase == <<"A","B","C","D","E","F","G","H","I","J","K","L","M","N","O","P","Q","R","S","T","U","V","W","X","Y","Z">>
LowerCase == <<"a","b","c","d","e","f","g","h","i","j","k","l","m","n","o","p","q","r","s","t","u","v","w","x","y","z">>

\* str.lower() on one character.
LowerChar(c) ==
  IF \E i \in 1..Len(UpperCase) : UpperCase[i] = c
  THEN LowerCase[CHOOSE i \in 1..Len(UpperCase) : UpperCase[i] = c]
  ELSE c

\* str.lower()
Lower(s) == [i \in 1..Len(s) |-> LowerChar(s[i])]

\* sub in s (substring test)
Contains(s, sub) ==
  \E i \in 1..(Len(s) + 1) :
    /\ i + Len(sub) - 1 <= Len(s)
    /\ SubSeq(s, i, i + Len(sub) - 1) = sub

\* s.startswith(p), s.endswith(p)
StartsWith(s, p) == Len(p) <= Len(s) /\ SubSeq(s, 1, Len(p)) = p
EndsWith(s, p) == Len(p) <= Len(s) /\ SubSeq(s, Len(s) - Len(p) + 1, Len(s)) = p

\* s.rstrip(chars): drops every trailing character that is one of chars.
RECURSIVE RStrip(_, _)
RStrip(s, chars) ==
  IF s = <<>> \/ ~(\E i \in 1..Len(chars) : chars[i] = s[Len(s)])
  THEN s
  ELSE RStrip(SubSeq(s, 1, Len(s) - 1), chars)

\* s.lstrip(chars)
RECURSIVE LStrip(_, _)
LStrip(s, chars) ==
  IF s = <<>> \/ ~(\E i \in 1..Len(chars) : chars[i] = s[1])
  THEN s
  ELSE LStrip(Tail(s), chars)

\* s.replace(old, new), old not empty: every occurrence, left to right.
RECURSIVE Replace(_, _, _)
Replace(s, old, new) ==
  IF s = <<>> THEN <<>>
  ELSE IF StartsWith(s, old)
       THEN new \o Replace(SubSeq(s, Len(old) + 1, Len(s)), old, new)
       ELSE <<s[1]>> \o Replace(Tail(s), old, new)

\* s.split(sep) for a one-character sep: the text between the separators,
\* one part more than there are separators.
Split(s, sep) ==
  LET at == {i \in 1..Len(s) : s[i] = sep[1]}
      n == Cardinality(at)
      edge(k) == IF k = 0 THEN 0
                 ELSE IF k = n + 1 THEN Len(s) + 1
                 ELSE CHOOSE p \in at : Cardinality({q \in at : q <= p}) = k
  IN [k \in 1..(n + 1) |-> SubSeq(s, edge(k - 1) + 1, edge(k) - 1)]

\* sep.join(parts)
RECURSIVE Join(_, _)
Join(parts, sep) ==
  IF parts = <<>> THEN <<>>
  ELSE IF Len(parts) = 1 THEN parts[1]
  ELSE parts[1] \o sep \o Join(Tail(parts), sep)

\* bool(x) of an Optional[str]: None and '' are false.
Truthy(x) == x /= None /\ x /= <<>>

\* ------------------------------------------------------- version and tag
\* calculate_version_and_tag for an explicit version (the else branch).
ExplicitTag(v) == TagPrefix \o RStrip(v, DotZero)

\* The version calculate_version_and_tag takes from the latest release tag.
VersionOfTag(t) == Replace(t, TagPrefix, <<>>)

\* The returned version always gets a '.'.
WithDot(v) == IF ~Contains(v, Dot) THEN v \o DotZero ELSE v

\* --------------------------------------------------------------- the URL
\* The comparison made after lowering: 'darwin' and 'DARWIN' give 'macos' too.
OsNameFoldsCase(os) == IF Lower(os) = Lower(Darwin) THEN MacOS ELSE Lower(os)

\* if os == 'Darwin': 'macos', else os.lower()
OsName(os) == IF os = Darwin THEN MacOS ELSE Lower(os)

calculate_artifact_url(v, t, arch, os) ==
  Base \o Slash \o t \o Slash \o TagPrefix \o v \o Dash \o arch \o Dash
       \o OsName(os) \o TarGz

\* ----------------------------------------------------------------- paths
\* os.path.join(a, b) on POSIX.
PathJoin(a, b) ==
  IF StartsWith(b, Slash) THEN b
  ELSE IF a = <<>> \/ EndsWith(a, Slash) THEN a \o b
  ELSE a \o Slash \o b

IsRealSegment(seg) == seg /= <<>> /\ seg /= Dot

\* The file system's reading of a relative path: its components, with the
\* empty ones and the '.' ones dropped. No path of the model holds '..' or
\* names a symbolic link, and every install directory is relative.
PathOf(p) == SelectSeq(Split(p, Slash), IsRealSegment)

\* The directories above a resolved path, the working directory included.
Parents(p) == {SubSeq(p, 1, k) : k \in 0..(Len(p) - 1)}

\* The 'tar' extraction filter strips the leading slashes of a member name.
FilteredName(n) == LStrip(n, Slash)

\* ------------------------------------------------------------- extraction
\* parts = member.name.split('/')
Parts(name) == Split(name, Slash)

\* len(parts) > 1
ShouldExtract(name) == Len(Parts(name)) > 1

\* '/'.join(parts[1:]) taken without the slice: the first component stays.
NewNameKeepsFirst(name) == Join(Parts(name), Slash)

\* member.name = '/'.join(parts[1:])
NewName(name) == Join(Tail(Parts(name)), Slash)

\* Where tar.extract(member, path=install_dir, filter='tar') puts a member.
DestPath(dir, name) == PathOf(PathJoin(dir, FilteredName(name)))

\* ------------------------------------------------------ write_variables
ClangPath(dir) == dir \o BinClang
SysrootPath(dir) == dir \o ShareSysroot

KeySdkPath == <<"w","a","s","i","-","s","d","k","-","p","a","t","h","=">>
KeySdkVersion == <<"w","a","s","i","-","s","d","k","-","v","e","r","s","i","o","n","=">>
KeyClangPath == <<"c","l","a","n","g","-","p","a","t","h","=">>
KeySysrootPath == <<"s","y","s","r","o","o","t","-","p","a","t","h","=">>
KeyEnvSdkPath == <<"W","A","S","I","_","S","D","K","_","P","A","T","H","=">>
KeyEnvSdkVersion == <<"W","A","S","I","_","S","D","K","_","V","E","R","S","I","O","N","=">>
KeyCC == <<"C","C","=">>
KeyCXX == <<"C","X","X","=">>
SysrootFlag == <<" ","-","-","s","y","s","r","o","o","t","=">>
PlusPlus == <<"+","+">>

\* The four f.write calls on the output file, in order.
OutputText(dir, v) ==
  KeySdkPath \o dir \o NL
  \o KeySdkVersion \o v \o NL
  \o KeyClangPath \o ClangPath(dir) \o NL
  \o KeySysrootPath \o SysrootPath(dir) \o NL

\* The four f.write calls on the environment file, in order.
EnvText(dir, v) ==
  KeyEnvSdkPath \o dir \o NL
  \o KeyEnvSdkVersion \o v \o NL
  \o KeyCC \o ClangPath(dir) \o SysrootFlag \o SysrootPath(dir) \o NL
  \o KeyCXX \o ClangPath(dir) \o PlusPlus \o SysrootFlag \o SysrootPath(dir) \o NL

\* open(path, 'w') in place of 'a': the previous content is lost.
AppendedTruncates(content, text) == text

\* What open(path, 'a') and the writes leave in a file.
Appended(content, text) ==
  IF content = NoFile THEN text ELSE content \o text

\* ------------------------------------------------------------------ state
VARIABLES
  pc,          \* the statement the run is at
  error,       \* the statement that raised, "none" while nothing has
  environ,     \* os.environ: each variable's value, or Unset
  args,        \* the parsed command line
  machine,     \* platform.machine()
  system,      \* platform.system()
  archive,     \* the members of the archive the URL serves, in order
  version,     \* module global set at startup
  install_dir, \* module global set at startup
  add_to_path, \* module global set at startup
  output_file, \* module global set at startup
  env_file,    \* module global set at startup
  m_version,   \* main's local version
  tag,         \* main's local tag
  url,         \* main's local url
  tmp_exists,  \* whether the temporary download file exists
  idx,         \* the next member of the extraction loop
  fs_files,    \* the regular files of the file system, as resolved paths
  fs_dirs,     \* its directories
  extracted,   \* the tar.extract calls that returned: member index and path
  files,       \* the content of each output and environment file
  files0,      \* their content when the run began
  started,     \* the stages of main that began, in order
  finished     \* the stages of main that returned, in order

vars == <<pc, error, environ, args, machine, system, archive, version,
          install_dir, add_to_path, output_file, env_file, m_version, tag,
          url, tmp_exists, idx, fs_files, fs_dirs, extracted, files, files0,
          started, finished>>

inputs == <<environ, args, machine, system, archive, files0>>
globals == <<version, install_dir, add_to_path, output_file, env_file>>
locals == <<m_version, tag, url>>
inst == <<tmp_exists, idx, fs_files, fs_dirs, extracted>>
hist == <<started, finished>>

Stages == <<"resolve", "url", "install", "write">>

\* ----------------------------------------------------------- input pools
VersionChars == {"2", "5", "0", "1", "."}

\* A dotted numeric version: digit groups, none empty, separated by dots,
\* the first not starting with a zero.
IsVersion(v) ==
  LET groups == Split(v, Dot) IN
  /\ \A i \in 1..Len(groups) : groups[i] /= <<>>
  /\ groups[1][1] /= "0"

\* Every dotted numeric version of at most MaxVerLen characters.
VersionInputs ==
  {v \in UNION {[1..n -> VersionChars] : n \in 1..MaxVerLen} : IsVersion(v)}

\* Tags the latest-release lookup may return.
LatestTags == {<<"w","a","s","i","-","s","d","k","-","2","5">>, <<"w","a","s","i","-","s","d","k","-","2","0">>, <<"w","a","s","i","-","s","d","k","-","2","5",".","1">>, <<"w","a","s","i","-","s","d","k","-","2","5",".","0">>}

Machines == {<<"x","8","6","_","6","4">>, <<"a","r","m","6","4">>, <<>>}
Systems == {<<"L","i","n","u","x">>, <<"D","a","r","w","i","n">>, <<"W","i","n","d","o","w","s">>, <<"d","a","r","w","i","n">>, <<"D","A","R","W","I","N">>, <<"D","a","r","w","i","n"," ">>, <<>>}

FilePaths == {<<"o">>, <<"e">>, <<"p">>}
OptionalPaths == {None, <<>>} \cup FilePaths
InstallDirs == {<<".">>, <<"d">>}

\* An archive member: its name and whether it is a directory.
Member(n, d) == [name |-> n, isdir |-> d]

MemberNames ==
  {<<>>, <<"r">>, <<"r","/","a">>, <<"r","/","a","/","b">>, <<"a","/","b">>, <<"/","a">>, <<"r","/","/","a">>, <<"r","/","r">>}

Members == {Member(n, d) : n \in MemberNames, d \in BOOLEAN}

\* Every archive of at most MaxMembers members.
Archives == UNION {[1..n -> Members] : n \in 0..MaxMembers}

\* A release archive, one without bin/clang, and an empty one.
SdkArchive ==
  << Member(<<"w","a","s","i","-","s","d","k","-","2","5",".","0">>, TRUE),
     Member(<<"w","a","s","i","-","s","d","k","-","2","5",".","0","/","b","i","n","/","c","l","a","n","g">>, FALSE),
     Member(<<"w","a","s","i","-","s","d","k","-","2","5",".","0","/","s","h","a","r","e","/","w","a","s","i","-","s","y","s","r","o","o","t">>, TRUE) >>
NoClangArchive ==
  << Member(<<"w","a","s","i","-","s","d","k","-","2","5",".","0">>, TRUE),
     Member(<<"w","a","s","i","-","s","d","k","-","2","5",".","0","/","s","h","a","r","e","/","w","a","s","i","-","s","y","s","r","o","o","t">>, TRUE) >>
PipelineArchives == {SdkArchive, NoClangArchive, <<>>}

PriorLine == <<"x","=","1">> \o NL
RECURSIVE Repeat(_, _)
Repeat(s, n) == IF n = 0 THEN <<>> ELSE s \o Repeat(s, n - 1)

\* What a file may hold before the run: nothing (it does not exist), or at
\* most MaxPrior lines.
PriorContents == {NoFile} \cup {Repeat(PriorLine, n) : n \in 0..MaxPrior}

\* ---------------------------------------------------------- configuration
\* os.getenv(name, default)
Getenv(name, default) == IF environ[name] = Unset THEN default ELSE environ[name]

\* os.getenv('INPUT_ADD_TO_PATH', 'false') == 'true', the .lower() left out.
AddToPathCaseSensitive == Getenv("INPUT_ADD_TO_PATH", FalseStr) = TrueStr

\* os.getenv('INPUT_ADD_TO_PATH', 'false').lower() == 'true'
AddToPath == Lower(Getenv("INPUT_ADD_TO_PATH", FalseStr)) = TrueStr

\* os.getenv(name, flag) if add_to_path else flag
Redirected(name, flag) == IF AddToPath THEN Getenv(name, flag) ELSE flag

\* ------------------------------------------------------------- resolution
\* calculate_version_and_tag(version), lt being what retrieve_latest_tag
\* returns when it is called: the pair (version, tag).
calculate_version_and_tag(v, lt) ==
  IF v = Latest
  THEN <<WithDot(VersionOfTag(lt)), lt>>
  ELSE <<WithDot(v), ExplicitTag(v)>>

\* ---------------------------------------------------------------- actions
Fail(label) == pc' = "failed" /\ error' = label

\* The module's startup: the globals from the flags and the environment.
Configure ==
  /\ pc = "config"
  /\ version' = Getenv("INPUT_VERSION", args.version)
  /\ install_dir' = Getenv("INPUT_INSTALL_DIR", args.install_dir)
  /\ add_to_path' = AddToPath
  /\ output_file' = Redirected("GITHUB_PATH", args.output_file)
  /\ env_file' = Redirected("GITHUB_ENV", args.env_file)
  /\ pc' = IF args.test_only THEN "tests" ELSE "resolve"
  /\ UNCHANGED <<error, inputs, locals, inst, files, hist>>

\* --test-only: the doctests run and the process exits; main is not called.
RunTests ==
  /\ pc = "tests"
  /\ pc' = "exit"
  /\ UNCHANGED <<error, inputs, globals, locals, inst, files, hist>>

\* main: version, tag = calculate_version_and_tag(version)
Resolve ==
  /\ pc = "resolve"
  /\ \E lt \in LatestTags :
       LET r == calculate_version_and_tag(version, lt) IN
       /\ m_version' = r[1]
       /\ tag' = r[2]
  /\ started' = Append(started, "resolve")
  /\ finished' = Append(finished, "resolve")
  /\ pc' = "url"
  /\ UNCHANGED <<error, inputs, globals, url, inst, files>>

\* retrieve_latest_tag raises (the network, the JSON, the tag_name key).
RetrieveFails ==
  /\ pc = "resolve"
  /\ version = Latest
  /\ started' = Append(started, "resolve")
  /\ Fail("retrieve")
  /\ UNCHANGED <<inputs, globals, locals, inst, files, finished>>

\* main: url = calculate_artifact_url(version, tag, machine, system)
BuildUrl ==
  /\ pc = "url"
  /\ url' = calculate_artifact_url(m_version, tag, machine, system)
  /\ started' = Append(started, "url")
  /\ finished' = Append(finished, "url")
  /\ pc' = "download"
  /\ UNCHANGED <<error, inputs, globals, m_version, tag, inst, files>>

\* install: the temporary file is created and the URL retrieved into it.
Download ==
  /\ pc = "download"
  /\ tmp_exists' = TRUE
  /\ started' = Append(started, "install")
  /\ pc' = "makedirs"
  /\ UNCHANGED <<error, inputs, globals, locals, idx, fs_files, fs_dirs,
                 extracted, files, finished>>

\* urlretrieve raises: the temporary file was created before it.
DownloadFails ==
  /\ pc = "download"
  /\ tmp_exists' = TRUE
  /\ started' = Append(started, "install")
  /\ Fail("download")
  /\ UNCHANGED <<inputs, globals, locals, idx, fs_files, fs_dirs,
                 extracted, files, finished>>

\* os.makedirs(install_dir, exist_ok=True)
MakeDirs ==
  /\ pc = "makedirs"
  /\ LET d == PathOf(install_dir) IN
     /\ ({d} \cup Parents(d)) \cap fs_files = {}
     /\ fs_dirs' = fs_dirs \cup {d} \cup Parents(d)
  /\ pc' = "open"
  /\ UNCHANGED <<error, inputs, globals, locals, tmp_exists, idx, fs_files,
                 extracted, files, hist>>

MakeDirsFails ==
  /\ pc = "makedirs"
  /\ Fail("makedirs")
  /\ UNCHANGED <<inputs, globals, locals, inst, files, hist>>

\* tarfile.open(file.name, 'r:gz') and tar.getmembers()
OpenTar ==
  /\ pc = "open"
  /\ idx' = 1
  /\ pc' = "extract"
  /\ UNCHANGED <<error, inputs, globals, locals, tmp_exists, fs_files,
                 fs_dirs, extracted, files, hist>>

\* The download is no gzip-compressed tar archive.
OpenTarFails ==
  /\ pc = "open"
  /\ Fail("open")
  /\ UNCHANGED <<inputs, globals, locals, inst, files, hist>>

\* A member of one path component: nothing is extracted.
SkipMember ==
  /\ pc = "extract"
  /\ idx <= Len(archive)
  /\ ~ShouldExtract(archive[idx].name)
  /\ idx' = idx + 1
  /\ UNCHANGED <<pc, error, inputs, globals, locals, tmp_exists, fs_files,
                 fs_dirs, extracted, files, hist>>

\* A member of several components is renamed and extracted. A file cannot
\* replace a directory, nor can a file stand where a directory of the path
\* is needed: tar.extract raises there (ExtractFails). A directory member
\* where a file stands either raises or leaves the file, by the version of
\* tarfile.
ExtractMember ==
  /\ pc = "extract"
  /\ idx <= Len(archive)
  /\ ShouldExtract(archive[idx].name)
  /\ LET p == DestPath(install_dir, NewName(archive[idx].name)) IN
     /\ Parents(p) \cap fs_files = {}
     /\ IF archive[idx].isdir
        THEN /\ fs_dirs' = fs_dirs \cup Parents(p)
                             \cup (IF p \in fs_files THEN {} ELSE {p})
             /\ UNCHANGED fs_files
        ELSE /\ p \notin fs_dirs
             /\ fs_files' = fs_files \cup {p}
             /\ fs_dirs' = fs_dirs \cup Parents(p)
     /\ extracted' = Append(extracted, [member |-> idx, path |-> p])
  /\ idx' = idx + 1
  /\ UNCHANGED <<pc, error, inputs, globals, locals, tmp_exists, files, hist>>

\* The raise of ExtractFails swallowed: main goes on to write_variables.
ExtractFailsIgnored ==
  /\ pc = "extract"
  /\ idx <= Len(archive)
  /\ ShouldExtract(archive[idx].name)
  /\ pc' = "assert_clang"
  /\ UNCHANGED <<error, inputs, globals, locals, inst, files, hist>>

\* The raise of ExtractFails caught by a finally that unlinks the file.
ExtractFailsCleansUp ==
  /\ pc = "extract"
  /\ idx <= Len(archive)
  /\ ShouldExtract(archive[idx].name)
  /\ tmp_exists' = FALSE
  /\ Fail("extract")
  /\ UNCHANGED <<inputs, globals, locals, idx, fs_files, fs_dirs, extracted,
                 files, hist>>

\* tar.extract raises (the filter, a permission, the disk): nothing is undone.
ExtractFails ==
  /\ pc = "extract"
  /\ idx <= Len(archive)
  /\ ShouldExtract(archive[idx].name)
  /\ Fail("extract")
  /\ UNCHANGED <<inputs, globals, locals, inst, files, hist>>

\* The loop is over: the archive is closed and os.unlink(file.name) runs.
Unlink ==
  /\ pc = "extract"
  /\ idx > Len(archive)
  /\ tmp_exists' = FALSE
  /\ finished' = Append(finished, "install")
  /\ pc' = "assert_clang"
  /\ UNCHANGED <<error, inputs, globals, locals, idx, fs_files, fs_dirs,
                 extracted, files, started>>

\* ------------------------------------------------------- write_variables
\* os.path.isfile(p) with the assertion compiled away: nothing is checked.
IsFileUnchecked(p) == TRUE

\* os.path.isfile(p)
IsFile(p) == PathOf(p) \in fs_files

\* os.path.isdir(p)
IsDir(p) == PathOf(p) \in fs_dirs

\* assert os.path.isfile(clang_path)
AssertClang ==
  /\ pc = "assert_clang"
  /\ started' = Append(started, "write")
  /\ IF IsFile(ClangPath(install_dir))
     THEN pc' = "assert_sysroot" /\ UNCHANGED error
     ELSE Fail("assert_clang")
  /\ UNCHANGED <<inputs, globals, locals, inst, files, finished>>

\* assert os.path.isdir(sysroot_path)
AssertSysroot ==
  /\ pc = "assert_sysroot"
  /\ IF IsDir(SysrootPath(install_dir))
     THEN pc' = "write_output" /\ UNCHANGED error
     ELSE Fail("assert_sysroot")
  /\ UNCHANGED <<inputs, globals, locals, inst, files, hist>>

\* if output_file: the four lines are appended. The version written is the
\* module global, write_variables having no version of its own.
WriteOutput ==
  /\ pc = "write_output"
  /\ IF Truthy(output_file)
     THEN files' = [files EXCEPT ![output_file] =
                      Appended(@, OutputText(install_dir, version))]
     ELSE UNCHANGED files
  /\ pc' = "write_env"
  /\ UNCHANGED <<error, inputs, globals, locals, inst, hist>>

\* open(output_file, 'a') raises.
WriteOutputFails ==
  /\ pc = "write_output"
  /\ Truthy(output_file)
  /\ Fail("open_output")
  /\ UNCHANGED <<inputs, globals, locals, inst, files, hist>>

\* if env_file: the four lines are appended.
WriteEnv ==
  /\ pc = "write_env"
  /\ IF Truthy(env_file)
     THEN files' = [files EXCEPT ![env_file] =
                      Appended(@, EnvText(install_dir, version))]
     ELSE UNCHANGED files
  /\ finished' = Append(finished, "write")
  /\ pc' = "done"
  /\ UNCHANGED <<error, inputs, globals, locals, inst, started>>

\* open(env_file, 'a') raises.
WriteEnvFails ==
  /\ pc = "write_env"
  /\ Truthy(env_file)
  /\ Fail("open_env")
  /\ UNCHANGED <<inputs, globals, locals, inst, files, hist>>

\* ---------------------------------------------------------- specifications
NoEnviron ==
  [INPUT_VERSION |-> Unset, INPUT_INSTALL_DIR |-> Unset,
   INPUT_ADD_TO_PATH |-> Unset, GITHUB_PATH |-> Unset, GITHUB_ENV |-> Unset]

\* The flags that give the globals v, d, o and e with no environment set.
ArgsFor(v, d, o, e) ==
  [version |-> v, install_dir |-> d, output_file |-> o, env_file |-> e,
   test_only |-> FALSE]

NoFiles == [p \in FilePaths |-> NoFile]

\* The state main is entered in with the globals v, d, o and e.
AtMain(v, d, o, e) ==
  /\ error = "none"
  /\ environ = NoEnviron
  /\ args = ArgsFor(v, d, o, e)
  /\ version = v
  /\ install_dir = d
  /\ add_to_path = FALSE
  /\ output_file = o
  /\ env_file = e
  /\ tmp_exists = FALSE
  /\ idx = 0
  /\ extracted = <<>>

\* The whole run, from the process's start.
Init ==
  /\ pc = "config"
  /\ error = "none"
  /\ environ \in [INPUT_VERSION : {Unset, <<"2","5",".","0">>},
                  INPUT_INSTALL_DIR : {Unset, <<"d">>},
                  INPUT_ADD_TO_PATH : {Unset, <<"t","r","u","e">>, <<"T","r","u","e">>, <<"T","R","U","E">>,
                                       <<"f","a","l","s","e">>, <<>>, <<"y","e","s">>},
                  GITHUB_PATH : {Unset, <<"p">>},
                  GITHUB_ENV : {Unset, <<"e">>}]
  /\ args \in [version : {Latest, <<"2","5",".","1">>, <<"2","5">>},
               install_dir : {<<".">>},
               output_file : {None, <<"o">>},
               env_file : {None, <<"e">>},
               test_only : BOOLEAN]
  /\ machine = <<"x","8","6","_","6","4">>
  /\ system \in {<<"L","i","n","u","x">>, <<"D","a","r","w","i","n">>}
  /\ archive \in PipelineArchives
  /\ version = None
  /\ install_dir = None
  /\ add_to_path = FALSE
  /\ output_file = None
  /\ env_file = None
  /\ m_version = None
  /\ tag = None
  /\ url = None
  /\ tmp_exists = FALSE
  /\ idx = 0
  /\ fs_files = {}
  /\ fs_dirs = {<<>>}
  /\ extracted = <<>>
  /\ files = NoFiles
  /\ files0 = files
  /\ started = <<>>
  /\ finished = <<>>

NextResolve == Resolve \/ RetrieveFails

NextInstall ==
  \/ Download \/ DownloadFails
  \/ MakeDirs \/ MakeDirsFails
  \/ OpenTar \/ OpenTarFails
  \/ SkipMember \/ ExtractMember \/ ExtractFails
  \/ Unlink

NextWrite ==
  \/ AssertClang \/ AssertSysroot
  \/ WriteOutput \/ WriteOutputFails
  \/ WriteEnv \/ WriteEnvFails

Next ==
  \/ Configure \/ RunTests
  \/ NextResolve
  \/ BuildUrl
  \/ NextInstall
  \/ NextWrite

Spec == Init /\ [][Next]_vars

\* calculate_version_and_tag alone, on every bounded version string.
InitResolve ==
  /\ pc = "resolve"
  /\ \E v \in VersionInputs \cup {Latest} : AtMain(v, <<".">>, None, None)
  /\ machine = <<"x","8","6","_","6","4">>
  /\ system = <<"L","i","n","u","x">>
  /\ archive = <<>>
  /\ m_version = None
  /\ tag = None
  /\ url = None
  /\ fs_files = {}
  /\ fs_dirs = {<<>>}
  /\ files = NoFiles
  /\ files0 = files
  /\ started = <<>>
  /\ finished = <<>>

SpecResolve == InitResolve /\ [][NextResolve]_vars

\* calculate_artifact_url alone.
InitUrl ==
  /\ pc = "url"
  /\ m_version \in {<<"2","5",".","0">>, <<"2","5",".","1">>}
  /\ tag \in {<<"w","a","s","i","-","s","d","k","-","2","5">>, <<"w","a","s","i","-","s","d","k","-","2","5",".","1">>}
  /\ AtMain(m_version, <<".">>, None, None)
  /\ machine \in Machines
  /\ system \in Systems
  /\ archive = <<>>
  /\ url = None
  /\ fs_files = {}
  /\ fs_dirs = {<<>>}
  /\ files = NoFiles
  /\ files0 = files
  /\ started = <<"resolve">>
  /\ finished = <<"resolve">>

SpecUrl == InitUrl /\ [][BuildUrl]_vars

\* install alone, on every bounded archive.
InitInstall ==
  /\ pc = "download"
  /\ \E d \in InstallDirs : AtMain(<<"2","5",".","0">>, d, None, None)
  /\ machine = <<"x","8","6","_","6","4">>
  /\ system = <<"L","i","n","u","x">>
  /\ archive \in Archives
  /\ m_version = <<"2","5",".","0">>
  /\ tag = <<"w","a","s","i","-","s","d","k","-","2","5">>
  /\ url = calculate_artifact_url(m_version, tag, machine, system)
  /\ fs_files = {}
  /\ fs_dirs = {<<>>}
  /\ files = NoFiles
  /\ files0 = files
  /\ started = <<"resolve", "url">>
  /\ finished = <<"resolve", "url">>

SpecInstall == InitInstall /\ [][NextInstall]_vars

\* What bin/clang or share/wasi-sysroot may be under the install directory.
Kinds == {"file", "dir", "absent"}

FilesOf(d, clang, sysroot) ==
  (IF clang = "file" THEN {PathOf(ClangPath(d))} ELSE {})
  \cup (IF sysroot = "file" THEN {PathOf(SysrootPath(d))} ELSE {})

DirsOf(d, clang, sysroot) ==
  {PathOf(d)} \cup Parents(PathOf(d))
  \cup (IF clang = "absent" THEN {} ELSE Parents(PathOf(ClangPath(d))))
  \cup (IF clang = "dir" THEN {PathOf(ClangPath(d))} ELSE {})
  \cup (IF sysroot = "absent" THEN {} ELSE Parents(PathOf(SysrootPath(d))))
  \cup (IF sysroot = "dir" THEN {PathOf(SysrootPath(d))} ELSE {})

\* write_variables alone, on every install directory content, every pair of
\* paths and every previous content of the files.
InitWrite ==
  /\ pc = "assert_clang"
  /\ \E v \in {Latest, <<"2","5">>}, d \in InstallDirs, o \in OptionalPaths,
        e \in OptionalPaths : AtMain(v, d, o, e)
  /\ machine = <<"x","8","6","_","6","4">>
  /\ system = <<"L","i","n","u","x">>
  /\ archive = <<>>
  /\ m_version = WithDot(IF version = Latest THEN <<"2","5">> ELSE version)
  /\ tag = <<"w","a","s","i","-","s","d","k","-","2","5">>
  /\ url = calculate_artifact_url(m_version, tag, machine, system)
  /\ \E clang \in Kinds, sysroot \in Kinds :
       /\ fs_files = FilesOf(install_dir, clang, sysroot)
       /\ fs_dirs = DirsOf(install_dir, clang, sysroot)
  /\ files \in [FilePaths -> PriorContents]
  /\ files0 = files
  /\ started = <<"resolve", "url", "install">>
  /\ finished = <<"resolve", "url", "install">>

SpecWrite == InitWrite /\ [][NextWrite]_vars

\* -------------------------------------------------------------- properties
IsPrefix(s, t) == Len(s) <= Len(t) /\ SubSeq(t, 1, Len(s)) = s

\* The input without its '.0' suffix when it ends in '.0', else the input.
WithoutDotZeroSuffix(v) ==
  IF EndsWith(v, DotZero) THEN SubSeq(v, 1, Len(v) - 2) ELSE v

\* C1: for every explicit version (any input but 'latest'), the tag is
\* 'wasi-sdk-' followed by the input with a trailing '.0' suffix removed,
\* and by the input itself when it does not end in '.0'.
C1_TagDropsDotZeroSuffix ==
  (pc = "url" /\ version /= Latest)
    => tag = TagPrefix \o WithoutDotZeroSuffix(version)

\* C5: the returned version holds a '.' (a dot-free one gets '.0', one with
\* a dot is unchanged), and the tag is 'wasi-sdk-' followed by the returned
\* version or by the returned version without its trailing '.0'.
C5_VersionHasDotAndTagMatches ==
  pc = "url" =>
    /\ Contains(m_version, Dot)
    /\ version /= Latest =>
         m_version = (IF Contains(version, Dot) THEN version
                      ELSE version \o DotZero)
    /\ \/ tag = TagPrefix \o m_version
       \/ /\ EndsWith(m_version, DotZero)
          /\ tag = TagPrefix \o SubSeq(m_version, 1, Len(m_version) - 2)

\* C9: the value written after 'wasi-sdk-version=' and 'WASI_SDK_VERSION='
\* is the normalized version calculate_version_and_tag returned to main (the
\* one the URL was built from), never the raw token.
C9_WrittenVersionIsNormalized ==
  pc = "done" =>
    /\ Truthy(output_file) =>
         Contains(files[output_file], KeySdkVersion \o m_version \o NL)
    /\ Truthy(env_file) =>
         Contains(files[env_file], KeyEnvSdkVersion \o m_version \o NL)

\* C10: the stages run in the order resolve, url, install, write, each at
\* most once; a stage begins only when the one before it returned; a failure
\* leaves its stage the last one begun, for good; and no file is written
\* unless install returned.
C10_StagesInOrder ==
  /\ [](/\ IsPrefix(started, Stages)
        /\ IsPrefix(finished, started)
        /\ Len(started) <= Len(finished) + 1
        /\ (error /= "none") <=> (pc = "failed")
        /\ pc = "failed" => Len(started) = Len(finished) + 1
        /\ files /= files0 => (Len(finished) >= 3 /\ finished[3] = "install"))
  /\ [][pc = "failed" => pc' = "failed" /\ started' = started]_vars

\* A run that went through the four stages and wrote a file.
C10_Witness ==
  /\ pc = "done"
  /\ started = Stages
  /\ finished = Stages
  /\ files /= files0

\* 'true' in any mix of cases.
IsTrueAnyCase(s) ==
  /\ Len(s) = 4
  /\ s[1] \in {"t", "T"}
  /\ s[2] \in {"r", "R"}
  /\ s[3] \in {"u", "U"}
  /\ s[4] \in {"e", "E"}

Present(name) == environ[name] /= Unset

\* C8: after startup, version and install_dir are the INPUT_ variable when
\* it is present and the flag otherwise; the output and environment file
\* paths are the flags, unless INPUT_ADD_TO_PATH is 'true' in any case, and
\* then GITHUB_PATH and GITHUB_ENV when present and the flags otherwise.
C8_EffectiveConfiguration ==
  pc /= "config" =>
    /\ version = (IF Present("INPUT_VERSION") THEN environ.INPUT_VERSION
                  ELSE args.version)
    /\ install_dir = (IF Present("INPUT_INSTALL_DIR")
                      THEN environ.INPUT_INSTALL_DIR ELSE args.install_dir)
    /\ output_file =
         (IF IsTrueAnyCase(environ.INPUT_ADD_TO_PATH) /\ Present("GITHUB_PATH")
          THEN environ.GITHUB_PATH ELSE args.output_file)
    /\ env_file =
         (IF IsTrueAnyCase(environ.INPUT_ADD_TO_PATH) /\ Present("GITHUB_ENV")
          THEN environ.GITHUB_ENV ELSE args.env_file)

\* INPUT_ADD_TO_PATH is 'True': GITHUB_PATH replaces the flag, the unset
\* GITHUB_ENV leaves the flag, and INPUT_VERSION replaces --version.
C8_Witness ==
  /\ pc /= "config"
  /\ environ.INPUT_ADD_TO_PATH = <<"T","r","u","e">>
  /\ environ.GITHUB_PATH = <<"p">>
  /\ environ.GITHUB_ENV = Unset
  /\ args.output_file = <<"o">>
  /\ args.env_file = <<"e">>
  /\ output_file = <<"p">>
  /\ env_file = <<"e">>
  /\ environ.INPUT_VERSION = <<"2","5",".","0">>
  /\ args.version = <<"2","5">>
  /\ version = <<"2","5",".","0">>

\* C4: the URL is the template filled with version, tag and arch unchanged
\* and with 'macos' for 'Darwin' exactly, the lowercased os otherwise; no
\* input is rejected. The two documented URLs are among the results.
C4_ArtifactUrl ==
  /\ error = "none"
  /\ pc /= "url" =>
       /\ url = <<"h","t","t","p","s",":","/","/","g","i","t","h","u","b",".","c","o","m","/","W","e","b","A","s","s","e","m","b","l","y","/","w","a","s","i","-","s","d","k","/","r","e","l","e","a","s","e","s","/","d","o","w","n","l","o","a","d","/">>
                \o tag \o <<"/","w","a","s","i","-","s","d","k","-">> \o m_version \o <<"-">> \o machine
                \o <<"-">>
                \o (IF system = <<"D","a","r","w","i","n">> THEN <<"m","a","c","o","s">> ELSE Lower(system))
                \o <<".","t","a","r",".","g","z">>
       /\ (m_version = <<"2","5",".","0">> /\ tag = <<"w","a","s","i","-","s","d","k","-","2","5">> /\ machine = <<"x","8","6","_","6","4">>
           /\ system = <<"L","i","n","u","x">>)
          => url = <<"h","t","t","p","s",":","/","/","g","i","t","h","u","b",".","c","o","m","/","W","e","b","A","s","s","e","m","b","l","y","/","w","a","s","i","-","s","d","k","/","r","e","l","e","a","s","e","s","/","d","o","w","n","l","o","a","d","/","w","a","s","i","-","s","d","k","-","2","5","/","w","a","s","i","-","s","d","k","-","2","5",".","0","-","x","8","6","_","6","4","-","l","i","n","u","x",".","t","a","r",".","g","z">>
       /\ (m_version = <<"2","5",".","1">> /\ tag = <<"w","a","s","i","-","s","d","k","-","2","5",".","1">> /\ machine = <<"a","r","m","6","4">>
           /\ system = <<"D","a","r","w","i","n">>)
          => url = <<"h","t","t","p","s",":","/","/","g","i","t","h","u","b",".","c","o","m","/","W","e","b","A","s","s","e","m","b","l","y","/","w","a","s","i","-","s","d","k","/","r","e","l","e","a","s","e","s","/","d","o","w","n","l","o","a","d","/","w","a","s","i","-","s","d","k","-","2","5",".","1","/","w","a","s","i","-","s","d","k","-","2","5",".","1","-","a","r","m","6","4","-","m","a","c","o","s",".","t","a","r",".","g","z">>

\* The documented Darwin URL has been built.
C4_Witness ==
  /\ pc = "download"
  /\ system = <<"D","a","r","w","i","n">>
  /\ machine = <<"a","r","m","6","4">>
  /\ url = <<"h","t","t","p","s",":","/","/","g","i","t","h","u","b",".","c","o","m","/","W","e","b","A","s","s","e","m","b","l","y","/","w","a","s","i","-","s","d","k","/","r","e","l","e","a","s","e","s","/","d","o","w","n","l","o","a","d","/","w","a","s","i","-","s","d","k","-","2","5",".","1","/","w","a","s","i","-","s","d","k","-","2","5",".","1","-","a","r","m","6","4","-","m","a","c","o","s",".","t","a","r",".","g","z">>

\* A name of more than one '/'-separated segment is one that holds a '/'.
HasSeveralSegments(name) == \E i \in 1..Len(name) : name[i] = "/"

\* The name with its first segment dropped: what follows its first '/'.
AfterFirstSegment(name) ==
  LET k == CHOOSE i \in 1..Len(name) :
             name[i] = "/" /\ \A j \in 1..(i - 1) : name[j] /= "/"
  IN SubSeq(name, k + 1, Len(name))

\* <install_dir>/<name with its first segment dropped>, as the file system
\* reads it.
Target(i) ==
  PathOf(install_dir \o <<"/">> \o AfterFirstSegment(archive[i].name))

SeveralSegmentMembers ==
  {i \in 1..Len(archive) : HasSeveralSegments(archive[i].name)}

\* C2: when install returns, the members extracted are exactly those whose
\* name has more than one segment, each at <install_dir>/<name without its
\* first segment>; the install directory holds these paths, the directories
\* leading to them and nothing else, so a member of a single segment is
\* nowhere under it.
C2_ExtractsStripped ==
  (pc = "assert_clang" /\ error = "none") =>
    /\ {extracted[k].member : k \in 1..Len(extracted)} = SeveralSegmentMembers
    /\ \A k \in 1..Len(extracted) :
         /\ extracted[k].path = Target(extracted[k].member)
         /\ extracted[k].path \in fs_files \cup fs_dirs
    /\ fs_files \cup fs_dirs =
         {PathOf(install_dir)} \cup Parents(PathOf(install_dir))
         \cup UNION {{Target(i)} \cup Parents(Target(i)) :
                       i \in SeveralSegmentMembers}

\* install returned: r was skipped and r/a/b is the file d/a/b.
C2_Witness ==
  /\ pc = "assert_clang"
  /\ error = "none"
  /\ install_dir = <<"d">>
  /\ archive = << Member(<<"r">>, TRUE), Member(<<"r","/","a","/","b">>, FALSE) >>
  /\ fs_files = { << <<"d">>, <<"a">>, <<"b">> >> }
  /\ << <<"d">>, <<"r">> >> \notin fs_dirs

\* C7: once install has returned the temporary file is gone; when tar.extract
\* raised, the run has failed with the temporary file still there and every
\* member extracted before still in the install directory.
C7_TempFileAndPartialExtraction ==
  /\ (Len(finished) >= 3 /\ finished[3] = "install") => ~tmp_exists
  /\ (pc = "extract" /\ idx > Len(archive)) => tmp_exists
  /\ error = "extract" =>
       /\ pc = "failed"
       /\ tmp_exists
       /\ Len(finished) < 3
       /\ Len(extracted) = Cardinality({i \in SeveralSegmentMembers : i < idx})
       /\ \A k \in 1..Len(extracted) :
            extracted[k].path \in fs_files \cup fs_dirs

\* The second member could not be extracted: the first is still there and
\* so is the temporary file.
C7_Witness ==
  /\ error = "extract"
  /\ pc = "failed"
  /\ tmp_exists
  /\ idx = 2
  /\ archive = << Member(<<"r","/","a">>, FALSE), Member(<<"r","/","a","/","b">>, FALSE) >>
  /\ << <<"a">> >> \in fs_files

ClangIsFile == PathOf(install_dir \o <<"/","b","i","n","/","c","l","a","n","g">>) \in fs_files
SysrootIsDir == PathOf(install_dir \o <<"/","s","h","a","r","e","/","w","a","s","i","-","s","y","s","r","o","o","t">>) \in fs_dirs

\* C3: when bin/clang is no file or share/wasi-sysroot no directory under
\* the install directory, write_variables gets no further than its
\* assertions, fails at the first that does not hold, and leaves every file
\* as it was.
C3_RefusesWithoutClangOrSysroot ==
  /\ ~ClangIsFile =>
       /\ pc \in {"assert_clang", "failed"}
       /\ pc = "failed" => error = "assert_clang"
  /\ (ClangIsFile /\ ~SysrootIsDir) =>
       /\ pc \in {"assert_clang", "assert_sysroot", "failed"}
       /\ pc = "failed" => error = "assert_sysroot"
  /\ (~ClangIsFile \/ ~SysrootIsDir) => files = files0

\* The sysroot is there, bin/clang is not: the run failed at the first
\* assertion with both paths given and no file written.
C3_Witness ==
  /\ pc = "failed"
  /\ error = "assert_clang"
  /\ ~ClangIsFile
  /\ SysrootIsDir
  /\ output_file = <<"o">>
  /\ env_file = <<"e">>
  /\ files = files0

\* What a file held before, a missing file holding nothing.
Previous(p) == IF files0[p] = NoFile THEN <<>> ELSE files0[p]

\* The text is exactly four lines, the i-th starting with the i-th key.
FourLines(text, keys) ==
  LET lines == Split(text, NL) IN
  /\ Len(lines) = 5
  /\ lines[5] = <<>>
  /\ \A i \in 1..4 : StartsWith(lines[i], keys[i])

OutputKeys ==
  << <<"w","a","s","i","-","s","d","k","-","p","a","t","h","=">>, <<"w","a","s","i","-","s","d","k","-","v","e","r","s","i","o","n","=">>, <<"c","l","a","n","g","-","p","a","t","h","=">>, <<"s","y","s","r","o","o","t","-","p","a","t","h","=">> >>
EnvKeys == << <<"W","A","S","I","_","S","D","K","_","P","A","T","H","=">>, <<"W","A","S","I","_","S","D","K","_","V","E","R","S","I","O","N","=">>, <<"C","C","=">>, <<"C","X","X","=">> >>

\* What was added to file p after its previous content.
Added(p) == SubSeq(files[p], Len(Previous(p)) + 1, Len(files[p]))

\* File p holds its previous content and then exactly the four lines of keys.
GrewByFourLines(p, keys) ==
  /\ files[p] /= NoFile
  /\ StartsWith(files[p], Previous(p))
  /\ FourLines(Added(p), keys)

\* The files whose path is given.
GivenFiles ==
  (IF Truthy(output_file) THEN {output_file} ELSE {})
  \cup (IF Truthy(env_file) THEN {env_file} ELSE {})

\* C6 as stated: when write_variables returns, the output file, if its path
\* is given, holds its previous content and then exactly its four lines, the
\* environment file likewise, and a file whose path is not given is as it
\* was.
C6_AsStated ==
  pc = "done" =>
    /\ Truthy(output_file) => GrewByFourLines(output_file, OutputKeys)
    /\ Truthy(env_file) => GrewByFourLines(env_file, EnvKeys)
    /\ \A p \in FilePaths \ GivenFiles : files[p] = files0[p]

\* C6, amended: as stated when the two paths name different files; when both
\* name the same file, it holds its previous content, then the four output
\* lines, then the four environment lines. No file ever loses content.
C6_AppendOnly ==
  /\ \A p \in FilePaths :
       \/ files[p] = files0[p]
       \/ files[p] /= NoFile /\ StartsWith(files[p], Previous(p))
  /\ pc = "done" =>
       /\ IF Truthy(output_file) /\ output_file = env_file
          THEN LET added == Added(output_file)
                   cut == Len(OutputText(install_dir, version))
               IN /\ files[output_file] /= NoFile
                  /\ StartsWith(files[output_file], Previous(output_file))
                  /\ FourLines(SubSeq(added, 1, cut), OutputKeys)
                  /\ FourLines(SubSeq(added, cut + 1, Len(added)), EnvKeys)
          ELSE /\ Truthy(output_file) =>
                    GrewByFourLines(output_file, OutputKeys)
               /\ Truthy(env_file) => GrewByFourLines(env_file, EnvKeys)
       /\ \A p \in FilePaths \ GivenFiles : files[p] = files0[p]

\* Two different files were written: o grew from one line, e was created.
C6_Witness ==
  /\ pc = "done"
  /\ output_file = <<"o">>
  /\ env_file = <<"e">>
  /\ files0[<<"o">>] = PriorLine
  /\ files0[<<"e">>] = NoFile
  /\ files[<<"o">>] = PriorLine \o OutputText(install_dir, version)
  /\ files[<<"p">>] = files0[<<"p">>]

====
